---- MODULE Spec2Model ----
(***************************************************************************)
(* Model of app/layout.tsx: the exported metadata descriptor and the       *)
(* RootLayout component.                                                   *)
(*                                                                         *)
(* Representation.  A React node is a record with a field kind:            *)
(*   [kind |-> "empty"]                       null / undefined children    *)
(*   [kind |-> "text", value |-> s]           a text node                  *)
(*   [kind |-> "element", type, props, children]   a JSX element           *)
(*   [kind |-> "array", items |-> <<...>>]    several nodes passed at once *)
(* A string that the program or its collaborators take apart (a class      *)
(* string, a URL) is a sequence of lexemes: maximal runs of ordinary       *)
(* characters, and each delimiter character (" ", "?", "=", "&", "+") as   *)
(* an element of its own.  "antialiased dark" is                           *)
(* <<"antialiased", " ", "dark">>.  A string that is only compared is a    *)
(* TLA+ string.                                                            *)
(***************************************************************************)
EXTENDS Integers, Sequences, FiniteSets, TLC

VARIABLES
    GeistSans,  \* the imported font object; only className is read
    metadata,   \* the exported module-level metadata descriptor
    log         \* the invocations of RootLayout so far: <<[children, result]>>

vars == <<GeistSans, metadata, log>>

\* Bounds of the model.
MaxItems == 1     \* longest list of nodes inside a children value
MaxRenders == 3   \* number of RootLayout invocations explored

---------------------------------------------------------------------------
(* Strings as lexeme sequences *)

SP == " "

\* The characters of a lexeme sequence, as one string.
RECURSIVE Text(_)
Text(s) == IF s = <<>> THEN "" ELSE Head(s) \o Text(Tail(s))

\* s.split(/\s+/) without the empty pieces: the tokens of a class string.
RECURSIVE SplitWS(_, _, _)
SplitWS(s, cur, acc) ==
    IF s = <<>>
    THEN IF cur = "" THEN acc ELSE Append(acc, cur)
    ELSE IF Head(s) = SP
         THEN SplitWS(Tail(s), "", IF cur = "" THEN acc ELSE Append(acc, cur))
         ELSE SplitWS(Tail(s), cur \o Head(s), acc)

ClassList(s) == SplitWS(s, "", <<>>)

\* tokens.join(" ")
RECURSIVE JoinSP(_)
JoinSP(tokens) ==
    IF tokens = <<>> THEN <<>>
    ELSE IF Len(tokens) = 1 THEN <<Head(tokens)>>
    ELSE <<Head(tokens), SP>> \o JoinSP(Tail(tokens))

\* The class-name concatenation: the non-empty arguments joined by " ".
RECURSIVE clsx(_)
clsx(inputs) ==
    IF inputs = <<>> THEN <<>>
    ELSE LET rest == clsx(Tail(inputs))
         IN  IF Head(inputs) = <<>> THEN rest
             ELSE IF rest = <<>> THEN Head(inputs)
             ELSE Head(inputs) \o <<SP>> \o rest

\* The tokens of a list, each kept once, in the order of first appearance.
RECURSIVE Dedupe(_, _)
Dedupe(tokens, acc) ==
    IF tokens = <<>> THEN acc
    ELSE Dedupe(Tail(tokens),
                IF \E i \in 1..Len(acc) : acc[i] = Head(tokens)
                THEN acc ELSE Append(acc, Head(tokens)))

\* cn(...inputs): concatenates and deduplicates class strings.
cn(inputs) == JoinSP(Dedupe(ClassList(clsx(inputs)), <<>>))

---------------------------------------------------------------------------
(* The metadata descriptor *)

\* A variant whose preview urls carry another title than the page.
metadataDivergent ==
    [ title |-> "Snoqualmie Tourism Virtual Assistant",
      description |-> "The ultimate guide to Historic Downtown Snoqualmie.",
      openGraph |->
        [ images |-> << [ url |-> <<"/og", "?", "title", "=",
                                    "Snoqualmie", " ", "Tourism", " ",
                                    "Assistant">> ] >> ],
      twitter |->
        [ card |-> "summary_large_image",
          images |-> << [ url |-> <<"/og", "?", "title", "=",
                                    "Snoqualmie", " ", "Tourism", " ",
                                    "Assistant">> ] >> ] ]

\* export const metadata = { ... }
metadataExport ==
    [ title |-> "Snoqualmie Tourism Virtual Assistant",
      description |-> "The ultimate guide to Historic Downtown Snoqualmie.",
      openGraph |->
        [ images |-> << [ url |-> <<"/og", "?", "title", "=",
                                    "Snoqualmie", " ", "Tourism", " ",
                                    "Virtual", " ", "Assistant">> ] >> ],
      twitter |->
        [ card |-> "summary_large_image",
          images |-> << [ url |-> <<"/og", "?", "title", "=",
                                    "Snoqualmie", " ", "Tourism", " ",
                                    "Virtual", " ", "Assistant">> ] >> ] ]

---------------------------------------------------------------------------
(* The preview-image endpoint's view of a url: its title query value *)

\* The pieces of s between the occurrences of the delimiter d.
RECURSIVE SplitOn(_, _, _, _)
SplitOn(s, d, cur, acc) ==
    IF s = <<>> THEN Append(acc, cur)
    ELSE IF Head(s) = d
         THEN SplitOn(Tail(s), d, <<>>, Append(acc, cur))
         ELSE SplitOn(Tail(s), d, Append(cur, Head(s)), acc)

\* The url as the document carries it: a space in the query becomes %20.
UrlSerialize(url) ==
    [i \in 1..Len(url) |-> IF url[i] = SP THEN "%20" ELSE url[i]]

\* Form decoding of a query value: "+" and %20 are spaces.
ParamDecode(s) ==
    [i \in 1..Len(s) |-> IF s[i] \in {"+", "%20"} THEN SP ELSE s[i]]

\* The index of the first occurrence of d in s, or 0.
IndexOf(s, d) ==
    IF \E i \in 1..Len(s) : s[i] = d
    THEN CHOOSE i \in 1..Len(s) : s[i] = d /\ \A j \in 1..(i - 1) : s[j] # d
    ELSE 0

\* The name=value pairs of the query of a url, in order.
QueryPairs(url) ==
    LET q == IndexOf(url, "?")
    IN  IF q = 0 THEN <<>>
        ELSE SelectSeq(SplitOn(SubSeq(url, q + 1, Len(url)), "&", <<>>, <<>>),
                       LAMBDA p : p # <<>>)

PairName(p) ==
    LET e == IndexOf(p, "=")
    IN  Text(ParamDecode(IF e = 0 THEN p ELSE SubSeq(p, 1, e - 1)))

PairValue(p) ==
    LET e == IndexOf(p, "=")
    IN  Text(ParamDecode(IF e = 0 THEN <<>> ELSE SubSeq(p, e + 1, Len(p))))

\* new URL(url).searchParams.get(name): the first value under name, if any.
SearchParamsGet(url, name) ==
    LET ps == SelectSeq(QueryPairs(UrlSerialize(url)),
                        LAMBDA p : PairName(p) = name)
    IN  IF ps = <<>> THEN [present |-> FALSE, value |-> ""]
        ELSE [present |-> TRUE, value |-> PairValue(ps[1])]

---------------------------------------------------------------------------
(* React nodes *)

Empty == [kind |-> "empty"]

TextNode(s) == [kind |-> "text", value |-> s]

Element(type, props, children) ==
    [kind |-> "element", type |-> type, props |-> props, children |-> children]

ArrayNode(items) == [kind |-> "array", items |-> items]

NoProps == <<>>

Texts == {"Hello", "Welcome"}

TextNodes == {TextNode(s) : s \in Texts}

NodeLists == UNION {[1..n -> TextNodes] : n \in 0..MaxItems}

\* The values the framework passes as children: nothing, a text, a page
\* element wrapping some texts, or several nodes at once.
Children ==
    {Empty} \cup TextNodes
    \cup {Element("main", NoProps, l) : l \in NodeLists}
    \cup {ArrayNode(l) : l \in NodeLists \ {<<>>}}

\* textContent of a node: the texts under it, in document order.
RECURSIVE TextContent(_)
TextContent(n) ==
    LET RECURSIVE OfList(_)
        OfList(l) == IF l = <<>> THEN ""
                     ELSE TextContent(Head(l)) \o OfList(Tail(l))
    IN  CASE n.kind = "empty" -> ""
          [] n.kind = "text" -> n.value
          [] n.kind = "array" -> OfList(n.items)
          [] n.kind = "element" -> OfList(n.children)

\* The class names the font facility generates for a preloaded typeface.
FontClassNames == { <<"__className_3a0388">>, <<"__className_d65c78">>,
                    <<"__className_0f2b1c">> }

---------------------------------------------------------------------------
(* RootLayout *)

\* The outcome of a call: a value returned, or an exception thrown.
Normal(v) == [type |-> "normal", value |-> v]
Throw(e) == [type |-> "throw", value |-> e]

\* A layout with the given root language, body class inputs and body
\* content; used to state variants of RootLayout.
LayoutWith(lang, classInputs, items) ==
    Normal(Element("html", [lang |-> lang],
        << Element("head", NoProps, <<>>),
           Element("body", [className |-> cn(classInputs)], items) >>))

ToasterAsWritten ==
    Element("Toaster", [position |-> "top-center", richColors |-> TRUE], <<>>)

ClassInputsAsWritten == <<GeistSans.className, <<"antialiased", SP, "dark">> >>

\* Variant: the children are placed before the navigation bar.
RootLayoutChildrenFirst(children) ==
    LayoutWith("en", ClassInputsAsWritten,
               <<ToasterAsWritten, children, Element("Navbar", NoProps, <<>>)>>)

\* Variant: the children are wrapped in a <main> element.
RootLayoutWrapped(children) ==
    LayoutWith("en", ClassInputsAsWritten,
               <<ToasterAsWritten, Element("Navbar", NoProps, <<>>),
                 Element("main", NoProps, <<children>>)>>)

\* Variant: the children are dereferenced, which throws when there are none.
RootLayoutDeref(children) ==
    IF children = Empty THEN Throw("TypeError")
    ELSE LayoutWith("en", ClassInputsAsWritten,
               <<ToasterAsWritten, Element("Navbar", NoProps, <<>>),
                      children>>)

\* Variant: the root language follows the page content.
RootLayoutLangFromPage(children) ==
    LayoutWith(IF children.kind = "element" THEN "en" ELSE "",
               ClassInputsAsWritten,
               <<ToasterAsWritten, Element("Navbar", NoProps, <<>>), children>>)

\* Variant: the theme flag is left out of the body classes.
RootLayoutNoTheme(children) ==
    LayoutWith("en", <<GeistSans.className, <<"antialiased">> >>,
               <<ToasterAsWritten, Element("Navbar", NoProps, <<>>), children>>)

\* Variant: a further utility class is merged into the body classes.
RootLayoutExtraClass(children) ==
    LayoutWith("en", ClassInputsAsWritten \o << <<"font-sans">> >>,
               <<ToasterAsWritten, Element("Navbar", NoProps, <<>>), children>>)

\* Variant: the notification host keeps the library's default options.
RootLayoutDefaultToaster(children) ==
    LET toaster == Element("Toaster", NoProps, <<>>)
    IN  LayoutWith("en", ClassInputsAsWritten,
                   <<toaster, Element("Navbar", NoProps, <<>>), children>>)

\* export default function RootLayout({ children })
RootLayout(children) ==
    Normal(
        Element("html", [lang |-> "en"],
            << Element("head", NoProps, <<>>),
               Element("body",
                   [className |->
                       cn(<<GeistSans.className,
                            <<"antialiased", SP, "dark">> >>)],
                   << Element("Toaster",
                          [position |-> "top-center", richColors |-> TRUE],
                          <<>>),
                      Element("Navbar", NoProps, <<>>),
                      children >>) >>))

---------------------------------------------------------------------------
(* The state machine *)

\* Module evaluation: the font is loaded, the descriptor is defined.
Init ==
    /\ GeistSans \in {[className |-> f] : f \in FontClassNames}
    /\ metadata = metadataExport
    /\ log = <<>>

\* Variant: the render writes the text of the page into the descriptor.
RenderTitleFromChildren(c) ==
    /\ Len(log) < MaxRenders
    /\ log' = Append(log, [children |-> c, result |-> RootLayout(c)])
    /\ metadata' = [metadata EXCEPT !.title = TextContent(c)]
    /\ UNCHANGED GeistSans

\* The framework renders a page: it calls RootLayout with the page content.
Render(c) ==
    /\ Len(log) < MaxRenders
    /\ log' = Append(log, [children |-> c, result |-> RootLayout(c)])
    /\ UNCHANGED <<GeistSans, metadata>>

Next == \E c \in Children : Render(c)

Spec == Init /\ [][Next]_vars

---------------------------------------------------------------------------
(* Reading a rendered tree *)

Calls == 1..Len(log)

Returned(i) == log[i].result.type = "normal"

Root(i) == log[i].result.value

\* The body element of the i-th output: the second child of the root.
Body(i) == Root(i).children[2]

BodyItems(i) == Body(i).children

IsElement(n, t) == n.kind = "element" /\ n.type = t

BodyClassList(i) == ClassList(Body(i).props.className)

Tokens(l) == {l[k] : k \in 1..Len(l)}

---------------------------------------------------------------------------
(* Properties *)

\* C1: every call of RootLayout returns a tree whose body holds exactly
\* three items, in this order: the Toaster, the Navbar, then the children
\* it was given, whatever the children are.
C1_BodyIsToasterNavbarChildren ==
    \A i \in Calls :
        /\ Returned(i)
        /\ IsElement(Body(i), "body")
        /\ Len(BodyItems(i)) = 3
        /\ IsElement(BodyItems(i)[1], "Toaster")
        /\ IsElement(BodyItems(i)[2], "Navbar")
        /\ BodyItems(i)[3] = log[i].children

\* Two calls with children of different kinds, both laid out that way.
C1_Witness ==
    \E i, j \in Calls :
        /\ log[i].children.kind = "array"
        /\ log[j].children.kind = "text"
        /\ Returned(i) /\ Returned(j)
        /\ BodyItems(i)[3] = log[i].children
        /\ BodyItems(j)[3] = log[j].children

\* C2: the last item of the body is the children exactly as given, and for
\* the single text node "Hello" its text content is "Hello".
C2_ChildrenPassedThroughLast ==
    \A i \in Calls :
        /\ Returned(i)
        /\ BodyItems(i) # <<>>
        /\ LET last == BodyItems(i)[Len(BodyItems(i))]
           IN  /\ last = log[i].children
               /\ log[i].children = TextNode("Hello")
                    => TextContent(last) = "Hello"

\* A call with the text node "Hello" whose last body item reads "Hello".
C2_Witness ==
    \E i \in Calls :
        /\ log[i].children = TextNode("Hello")
        /\ Returned(i)
        /\ TextContent(BodyItems(i)[Len(BodyItems(i))]) = "Hello"

\* C3: a call with empty children returns normally (nothing is thrown) and
\* its body still holds the Toaster and the Navbar.
C3_EmptyChildrenStillRenders ==
    \A i \in Calls :
        log[i].children = Empty =>
            /\ Returned(i)
            /\ \E k \in 1..Len(BodyItems(i)) :
                   IsElement(BodyItems(i)[k], "Toaster")
            /\ \E k \in 1..Len(BodyItems(i)) :
                   IsElement(BodyItems(i)[k], "Navbar")

\* A call with empty children that has returned.
C3_Witness ==
    \E i \in Calls : log[i].children = Empty /\ Returned(i)

\* C4: the root element of every output is <html> with lang = "en".
C4_RootLangEn ==
    \A i \in Calls :
        Returned(i) =>
            /\ IsElement(Root(i), "html")
            /\ "lang" \in DOMAIN Root(i).props
            /\ Root(i).props.lang = "en"

\* Outputs for an element and for a non-element, both with lang = "en".
C4_Witness ==
    \E i, j \in Calls :
        /\ log[i].children.kind = "element"
        /\ log[j].children.kind = "empty"
        /\ Returned(i) /\ Returned(j)
        /\ Root(i).props.lang = "en"
        /\ Root(j).props.lang = "en"

\* C5: the class list of the body of every output, as merged by cn from
\* the font class and "antialiased dark", contains "dark" and "antialiased".
C5_BodyHasDarkAndAntialiased ==
    \A i \in Calls :
        Returned(i) =>
            /\ "dark" \in Tokens(BodyClassList(i))
            /\ "antialiased" \in Tokens(BodyClassList(i))

\* An output whose body class string is the merged one, theme flag last.
C5_Witness ==
    \E i \in Calls :
        /\ Returned(i)
        /\ Body(i).props.className =
               GeistSans.className \o <<SP, "antialiased", SP, "dark">>

\* C6: the title of the metadata descriptor is the literal "Snoqualmie
\* Tourism Virtual Assistant" and the descriptor is the exported one in
\* every state: no call of RootLayout, with any children, changes a field.
C6_MetadataTitleStable ==
    /\ metadata.title = "Snoqualmie Tourism Virtual Assistant"
    /\ metadata.description =
           "The ultimate guide to Historic Downtown Snoqualmie."
    /\ metadata.twitter.card = "summary_large_image"
    /\ metadata = metadataExport

\* The descriptor after two calls with different children.
C6_Witness ==
    /\ Len(log) >= 2
    /\ log[1].children # log[2].children
    /\ metadata.title = "Snoqualmie Tourism Virtual Assistant"

\* C8: in every output the Toaster has exactly the props position =
\* "top-center" and richColors = true, and the Navbar has no props.
C8_ToasterAndNavbarProps ==
    \A i \in Calls :
        Returned(i) =>
            /\ \E k \in 1..Len(BodyItems(i)) :
                   /\ IsElement(BodyItems(i)[k], "Toaster")
                   /\ DOMAIN BodyItems(i)[k].props = {"position", "richColors"}
                   /\ BodyItems(i)[k].props.position = "top-center"
                   /\ BodyItems(i)[k].props.richColors = TRUE
            /\ \E k \in 1..Len(BodyItems(i)) :
                   /\ IsElement(BodyItems(i)[k], "Navbar")
                   /\ DOMAIN BodyItems(i)[k].props = {}

\* An output for array children whose first item is the Toaster at
\* "top-center".
C8_Witness ==
    \E i \in Calls :
        /\ Returned(i)
        /\ log[i].children.kind = "array"
        /\ BodyItems(i)[1].props.position = "top-center"

\* C9: the class list of the body of every output has exactly three
\* tokens: the font class, "antialiased" and "dark", each once.
C9_BodyHasExactlyThreeTokens ==
    \A i \in Calls :
        Returned(i) =>
            /\ Len(BodyClassList(i)) = 3
            /\ Tokens(BodyClassList(i)) =
                   {Text(GeistSans.className), "antialiased", "dark"}

\* An output under the font class __className_d65c78 with three tokens.
C9_Witness ==
    \E i \in Calls :
        /\ Returned(i)
        /\ GeistSans.className = <<"__className_d65c78">>
        /\ BodyClassList(i) = <<"__className_d65c78", "antialiased", "dark">>

\* C10: openGraph.images and twitter.images each hold exactly one image,
\* the two urls are the same, and the title query value of each url is
\* the title of the descriptor.
C10_PreviewTitleIsPageTitle ==
    LET og == metadata.openGraph.images
        tw == metadata.twitter.images
    IN  /\ Len(og) = 1
        /\ Len(tw) = 1
        /\ og[1].url = tw[1].url
        /\ SearchParamsGet(og[1].url, "title") =
               [present |-> TRUE, value |-> metadata.title]
        /\ SearchParamsGet(tw[1].url, "title") =
               [present |-> TRUE, value |-> metadata.title]

\* The descriptor, read after a render, yields the four-word title from
\* the twitter preview url.
C10_Witness ==
    /\ log # <<>>
    /\ SearchParamsGet(metadata.twitter.images[1].url, "title").value =
           "Snoqualmie Tourism Virtual Assistant"

====
